---- MODULE Spec2Model ----
(***************************************************************************)
(* MeetingMind AI: the App controller (App.tsx), the three Gemini service  *)
(* wrappers (services/geminiService.ts) and the upload validation of       *)
(* FileDropzone, as a state machine.  Every async handler is cut at its    *)
(* await points: the part up to the first await is the action named after  *)
(* the handler, every continuation is an action named after the promise    *)
(* that settles.  Handlers that are suspended at an await are the members  *)
(* of the bag `tasks`.                                                     *)
(***************************************************************************)
EXTENDS Bags, FiniteSets, Integers, Sequences, TLC

VARIABLES
    step,             \* useState<AppStep>
    processingState,  \* useState<ProcessingState>
    data,             \* useState<MeetingData>
    audioFile,        \* useState<File | null>
    tasks,            \* bag of suspended handleFileSelect / handleGenerateMinutes calls
    keySelections,    \* number of handleApiKeySelection calls awaiting openSelectKey()
    checkKeyPc,       \* position of the mount effect checkKey
    env,              \* window.aistudio, process.env.API_KEY, import.meta.env.VITE_API_KEY
    last              \* history: the handler or continuation that ran last, with its input

vars == <<step, processingState, data, audioFile, tasks, keySelections, checkKeyPc, env, last>>

----------------------------------------------------------------------------
(* Bounds *)

\* Handlers suspended at an await at one time: upload and minutes pipelines and
\* key selections together.
MaxPending == 2

----------------------------------------------------------------------------
(* types.ts *)

AppStep == {"AUTH", "UPLOAD", "TRANSCRIBE", "MINUTES"}

ProcessingStatus == {"IDLE", "PROCESSING", "SUCCESS", "ERROR"}

\* An error text is a sequence of words; <<>> is the empty or absent text.
NoError == <<>>

\* ProcessingState: the optional field `error` is NoError when it is absent.
ProcessingStateOf(status, message, error) ==
    [status |-> status, message |-> message, error |-> error]

EmptyMeetingData == [fileName |-> <<>>, fileType |-> <<>>, transcript |-> "", minutes |-> ""]

NoFile == [name |-> <<>>, type |-> <<>>, size |-> 0]

----------------------------------------------------------------------------
(* Texts *)

\* String.prototype.includes on word sequences: phrase occurs contiguously in text.
Includes(text, phrase) ==
    \E i \in 0..(Len(text) - Len(phrase)) :
        SubSeq(text, i + 1, i + Len(phrase)) = phrase

\* String.prototype.startsWith on token sequences.
StartsWith(text, prefix) ==
    /\ Len(text) >= Len(prefix)
    /\ SubSeq(text, 1, Len(prefix)) = prefix

NotFoundPhrase == <<"Requested", "entity", "was", "not", "found">>

\* Messages of the errors the gateway (ai.models.generateContent) rejects with.
GatewayErrors ==
    { <<"404", "Requested", "entity", "was", "not", "found", ".">>,
      <<"quota", "exceeded">>,
      NoError }

\* Messages of the errors window.aistudio.openSelectKey() rejects with.
HostErrors ==
    { <<"Requested", "entity", "was", "not", "found">>,
      <<"selection", "cancelled">>,
      NoError }

\* A gateway response: the text field may be absent.
GatewayResponses ==
    { [hasText |-> FALSE, text |-> ""],
      [hasText |-> TRUE,  text |-> ""],
      [hasText |-> TRUE,  text |-> "Speaker 1: Hello."] }

\* What the user may type into the transcript textarea.
EditTexts == {"", "Speaker 1: Hi."}

\* JavaScript truthiness of response.text
TextOf(response) == IF response.hasText THEN response.text ELSE ""

----------------------------------------------------------------------------
(* components/FileDropzone.tsx *)

LIMIT_MB == 200

\* The files the user may pick or drop: name and MIME type as token sequences.
Files ==
    { [name |-> <<"standup", ".", "v2", ".", "wav">>, type |-> <<"audio", "/", "wav">>,
       size |-> 200 * 1024 * 1024],
      [name |-> <<"long", ".", "mp3">>, type |-> <<"audio", "/", "mpeg">>,
       size |-> 200 * 1024 * 1024 + 1],
      [name |-> <<"clip", ".", "mp4">>, type |-> <<"video", "/", "mp4">>,
       size |-> 1024] }

\* Variant of validateAndPassFile without the size limit.
validateAndPassFileNoLimit(file) ==
    IF ~StartsWith(file.type, <<"audio", "/">>) THEN "Please upload a valid audio file."
    ELSE ""

\* validateAndPassFile: "" when the file is passed on, else the alert shown.
validateAndPassFile(file) ==
    IF ~StartsWith(file.type, <<"audio", "/">>) THEN "Please upload a valid audio file."
    ELSE IF file.size > LIMIT_MB * 1024 * 1024 THEN "File is too large (limit 200MB)."
    ELSE ""

----------------------------------------------------------------------------
(* services/geminiService.ts *)

\* Variant of getAI that never throws.
getAIAssumesKey == "key"

\* getAI: the key it finds, "" when it throws.
getAI == IF env.API_KEY # "" THEN env.API_KEY ELSE env.VITE_API_KEY

ApiKeyNotFound ==
    <<"API", "Key", "not", "found.", "Please", "ensure", "it", "is", "configured",
      "in", "the", "environment", "(.env", "file).">>

\* Variant of transcribeAudioText without the placeholder.
transcribeAudioTextNoPlaceholder(response) == TextOf(response)

\* transcribeAudio, line 63: response.text || "No transcript generated."
transcribeAudioText(response) ==
    IF TextOf(response) # "" THEN TextOf(response) ELSE "No transcript generated."

\* transcribeAudio, line 66: new Error(error.message || "Failed to transcribe audio.")
transcribeAudioError(error) ==
    IF error # NoError THEN error ELSE <<"Failed", "to", "transcribe", "audio.">>

\* Variant of correctTranscriptText without the fallback to the raw transcript.
correctTranscriptTextNoFallback(response, rawTranscript) == TextOf(response)

\* correctTranscript, line 97: response.text || rawTranscript
correctTranscriptText(response, rawTranscript) ==
    IF TextOf(response) # "" THEN TextOf(response) ELSE rawTranscript

\* correctTranscript, line 100: new Error("Failed to correct transcript.")
correctTranscriptError(error) == <<"Failed", "to", "correct", "transcript.">>

\* Variant of generateMeetingMinutesText without the placeholder.
generateMeetingMinutesTextNoPlaceholder(response) == TextOf(response)

\* generateMeetingMinutes, line 141: response.text || "No minutes generated."
generateMeetingMinutesText(response) ==
    IF TextOf(response) # "" THEN TextOf(response) ELSE "No minutes generated."

\* Variant of generateMeetingMinutesError that keeps the gateway's message, as
\* transcribeAudio does.
generateMeetingMinutesErrorKeepsMessage(error) ==
    IF error # NoError THEN error
    ELSE <<"Failed", "to", "generate", "meeting", "minutes.">>

\* generateMeetingMinutes, line 144: new Error("Failed to generate meeting minutes.")
generateMeetingMinutesError(error) == <<"Failed", "to", "generate", "meeting", "minutes.">>

----------------------------------------------------------------------------
(* Suspended handlers *)

\* utils/fileHelpers fileToBase64: the message of the error it rejects with when
\* the file cannot be read.
fileToBase64Error == <<"File", "read", "error">>

\* A handler suspended at an await: pc names the promise awaited, file and text
\* are the locals its continuation reads (the file until it is sent, the raw
\* transcript while it is corrected, the transcript the minutes are made of).
Task(pc, file, text) == [pc |-> pc, file |-> file, text |-> text]

GatewayStages == {"transcribe", "correct", "minutes"}

Suspended(pc) == {t \in BagToSet(tasks) : t.pc = pc}

Resume(t) == tasks (-) SetToBag({t})

Suspend(bag, t) == bag (+) SetToBag({t})

\* Number of gateway calls (generateContent) that have not settled.
RECURSIVE CountCalls(_, _)
CountCalls(bag, S) ==
    IF S = {} THEN 0
    ELSE LET t == CHOOSE x \in S : TRUE
         IN (IF t.pc \in GatewayStages THEN CopiesIn(t, bag) ELSE 0)
            + CountCalls(bag, S \ {t})

OutstandingCalls == CountCalls(tasks, BagToSet(tasks))

\* The history record: the handler or continuation that ran and the error it
\* caught; for the continuation of a resolved gateway call, the gateway's
\* response, and for transcribeAudio the text the service returned.
Event(name, error) ==
    [ev |-> name, error |-> error, text |-> "",
     response |-> [hasText |-> FALSE, text |-> ""], download |-> <<>>]

Resolved(name, response) == [Event(name, NoError) EXCEPT !.response = response]

\* Number of handlers suspended at an await.
Pending == BagCardinality(tasks) + keySelections

\* The UI handles input once the mount effect has run.
Mounted == checkKeyPc # "mount"

----------------------------------------------------------------------------
(* App.tsx: state after construction *)

Environments == [aistudio : BOOLEAN, API_KEY : {"", "key"}, VITE_API_KEY : {"", "key"}]

Init ==
    /\ step = "AUTH"
    /\ processingState = ProcessingStateOf("IDLE", "", NoError)
    /\ data = EmptyMeetingData
    /\ audioFile = NoFile
    /\ tasks = EmptyBag
    /\ keySelections = 0
    /\ checkKeyPc = "mount"
    /\ env \in Environments
    /\ last = Event("init", NoError)

----------------------------------------------------------------------------
(* App.tsx: handleError *)

\* Variant of handleError whose generic branch does not set the status.
handleErrorKeepsStatus(error, message) ==
    IF error # NoError /\ Includes(error, NotFoundPhrase)
    THEN /\ processingState' =
                ProcessingStateOf("ERROR", "API Key Error: Please re-select your API Key.", error)
         /\ step' = "AUTH"
    ELSE UNCHANGED <<processingState, step>>

\* Variant of handleError whose credential branch does not change the step.
handleErrorStaysOnStep(error, message) ==
    IF error # NoError /\ Includes(error, NotFoundPhrase)
    THEN /\ processingState' =
                ProcessingStateOf("ERROR", "API Key Error: Please re-select your API Key.", error)
         /\ UNCHANGED step
    ELSE /\ processingState' =
                ProcessingStateOf("ERROR", message,
                    IF error # NoError THEN error
                    ELSE <<"An", "unknown", "error", "occurred">>)
         /\ UNCHANGED step

handleError(error, message) ==
    IF error # NoError /\ Includes(error, NotFoundPhrase)
    THEN /\ processingState' =
                ProcessingStateOf("ERROR", "API Key Error: Please re-select your API Key.", error)
         /\ step' = "AUTH"
    ELSE /\ processingState' =
                ProcessingStateOf("ERROR", message,
                    IF error # NoError THEN error
                    ELSE <<"An", "unknown", "error", "occurred">>)
         /\ UNCHANGED step

----------------------------------------------------------------------------
(* App.tsx: the mount effect checkKey *)

checkKey ==
    /\ checkKeyPc = "mount"
    /\ IF env.aistudio
       THEN /\ checkKeyPc' = "hasSelectedApiKey"
            /\ UNCHANGED step
       ELSE /\ checkKeyPc' = "done"
            /\ step' = IF env.API_KEY # "" THEN "UPLOAD" ELSE "AUTH"
    /\ last' = Event("checkKey", NoError)
    /\ UNCHANGED <<processingState, data, audioFile, tasks, keySelections, env>>

\* window.aistudio.hasSelectedApiKey() resolves
hasSelectedApiKeyResolved(selected) ==
    /\ checkKeyPc = "hasSelectedApiKey"
    /\ step' = IF selected THEN "UPLOAD" ELSE "AUTH"
    /\ checkKeyPc' = "done"
    /\ last' = Event("hasSelectedApiKeyResolved", NoError)
    /\ UNCHANGED <<processingState, data, audioFile, tasks, keySelections, env>>

\* window.aistudio.hasSelectedApiKey() rejects: checkKey has no catch
hasSelectedApiKeyRejected ==
    /\ checkKeyPc = "hasSelectedApiKey"
    /\ checkKeyPc' = "done"
    /\ last' = Event("hasSelectedApiKeyRejected", NoError)
    /\ UNCHANGED <<step, processingState, data, audioFile, tasks, keySelections, env>>

----------------------------------------------------------------------------
(* App.tsx: handleApiKeySelection, the Connect button of the Auth view *)

\* Variant of handleApiKeySelection that does not test window.aistudio.
handleApiKeySelectionWithoutHost ==
    /\ Mounted
    /\ step = "AUTH"
    /\ Pending < MaxPending
    /\ keySelections' = keySelections + 1
    /\ last' = Event("handleApiKeySelection", NoError)
    /\ UNCHANGED <<step, processingState, data, audioFile, tasks, checkKeyPc, env>>

handleApiKeySelection ==
    /\ Mounted
    /\ step = "AUTH"
    /\ env.aistudio
    /\ Pending < MaxPending
    /\ keySelections' = keySelections + 1
    /\ last' = Event("handleApiKeySelection", NoError)
    /\ UNCHANGED <<step, processingState, data, audioFile, tasks, checkKeyPc, env>>

\* Variant of openSelectKeyResolved that leaves the step alone.
openSelectKeyResolvedKeepsStep ==
    /\ keySelections > 0
    /\ keySelections' = keySelections - 1
    /\ last' = Event("openSelectKeyResolved", NoError)
    /\ UNCHANGED <<step, processingState, data, audioFile, tasks, checkKeyPc, env>>

openSelectKeyResolved ==
    /\ keySelections > 0
    /\ keySelections' = keySelections - 1
    /\ step' = "UPLOAD"
    /\ last' = Event("openSelectKeyResolved", NoError)
    /\ UNCHANGED <<processingState, data, audioFile, tasks, checkKeyPc, env>>

openSelectKeyRejected ==
    /\ keySelections > 0
    /\ keySelections' = keySelections - 1
    /\ \E e \in HostErrors :
          /\ handleError(e, "Failed to select API Key. Please try again.")
          /\ last' = Event("openSelectKeyRejected", e)
    /\ UNCHANGED <<data, audioFile, tasks, checkKeyPc, env>>

----------------------------------------------------------------------------
(* App.tsx: handleFileSelect, reached through the dropzone of the Upload view *)

\* handleFileSelect up to `await fileToBase64(file)`
handleFileSelect(file) ==
    /\ Pending < MaxPending
    /\ audioFile' = file
    /\ data' = [data EXCEPT !.fileName = file.name, !.fileType = file.type]
    /\ processingState' =
          ProcessingStateOf("PROCESSING", "Transcribing audio... (Step 1/2)", NoError)
    /\ tasks' = Suspend(tasks, Task("fileToBase64", file, ""))
    /\ last' = Event("handleFileSelect", NoError)
    /\ UNCHANGED <<step, keySelections, checkKeyPc, env>>

\* FileDropzone handleChange / handleDrop: the dropzone is rendered at the Upload
\* step and takes no input while disabled.
handleChange ==
    /\ Mounted
    /\ step = "UPLOAD"
    /\ processingState.status # "PROCESSING"
    /\ \E file \in Files :
          IF validateAndPassFile(file) = ""
          THEN handleFileSelect(file)
          ELSE /\ last' = [Event("alert", NoError) EXCEPT !.text = validateAndPassFile(file)]
               /\ UNCHANGED <<step, processingState, data, audioFile, tasks,
                              keySelections, checkKeyPc, env>>

\* Variant of fileToBase64Resolved that starts the correction without waiting
\* for a transcription.
fileToBase64ResolvedSkipsTranscription ==
    \E t \in Suspended("fileToBase64") :
       /\ IF getAI = ""
          THEN /\ handleError(transcribeAudioError(ApiKeyNotFound), "Failed to process audio.")
               /\ tasks' = Resume(t)
          ELSE /\ tasks' = Suspend(Resume(t), Task("correct", NoFile, ""))
               /\ UNCHANGED <<step, processingState>>
       /\ last' = Event("fileToBase64Resolved", NoError)
       /\ UNCHANGED <<data, audioFile, keySelections, checkKeyPc, env>>

\* fileToBase64 resolves; transcribeAudio runs up to its generateContent call
fileToBase64Resolved ==
    \E t \in Suspended("fileToBase64") :
       /\ IF getAI = ""
          THEN /\ handleError(transcribeAudioError(ApiKeyNotFound), "Failed to process audio.")
               /\ tasks' = Resume(t)
          ELSE /\ tasks' = Suspend(Resume(t), Task("transcribe", NoFile, ""))
               /\ UNCHANGED <<step, processingState>>
       /\ last' = Event("fileToBase64Resolved", NoError)
       /\ UNCHANGED <<data, audioFile, keySelections, checkKeyPc, env>>

\* fileToBase64 rejects
fileToBase64Rejected ==
    \E t \in Suspended("fileToBase64") :
       /\ handleError(fileToBase64Error, "Failed to process audio.")
       /\ tasks' = Resume(t)
       /\ last' = Event("fileToBase64Rejected", NoError)
       /\ UNCHANGED <<data, audioFile, keySelections, checkKeyPc, env>>

\* generateContent of transcribeAudio resolves; correctTranscript runs up to its
\* generateContent call
transcribeAudioResolved ==
    \E t \in Suspended("transcribe"), response \in GatewayResponses :
       LET rawTranscript == transcribeAudioText(response) IN
       /\ IF getAI = ""
          THEN /\ handleError(correctTranscriptError(ApiKeyNotFound), "Failed to process audio.")
               /\ tasks' = Resume(t)
          ELSE /\ processingState' =
                     ProcessingStateOf("PROCESSING",
                                       "Refining transcript with AI... (Step 2/2)", NoError)
               /\ tasks' = Suspend(Resume(t), Task("correct", NoFile, rawTranscript))
               /\ UNCHANGED step
       /\ last' = [Resolved("transcribeAudioResolved", response) EXCEPT !.text = rawTranscript]
       /\ UNCHANGED <<data, audioFile, keySelections, checkKeyPc, env>>

\* Variant of transcribeAudioRejected that issues the transcription call again.
transcribeAudioRejectedRetries ==
    \E t \in Suspended("transcribe"), e \in GatewayErrors :
       /\ last' = Event("transcribeAudioRejected", e)
       /\ UNCHANGED <<step, processingState, tasks, data, audioFile, keySelections,
                      checkKeyPc, env>>

\* generateContent of transcribeAudio rejects
transcribeAudioRejected ==
    \E t \in Suspended("transcribe"), e \in GatewayErrors :
       /\ handleError(transcribeAudioError(e), "Failed to process audio.")
       /\ tasks' = Resume(t)
       /\ last' = Event("transcribeAudioRejected", e)
       /\ UNCHANGED <<data, audioFile, keySelections, checkKeyPc, env>>

\* generateContent of correctTranscript resolves
correctTranscriptResolved ==
    \E t \in Suspended("correct"), response \in GatewayResponses :
       LET refinedTranscript == correctTranscriptText(response, t.text) IN
       /\ data' = [data EXCEPT !.transcript = refinedTranscript]
       /\ step' = "TRANSCRIBE"
       /\ processingState' = ProcessingStateOf("SUCCESS", "Processing complete", NoError)
       /\ tasks' = Resume(t)
       /\ last' = Resolved("correctTranscriptResolved", response)
       /\ UNCHANGED <<audioFile, keySelections, checkKeyPc, env>>

\* generateContent of correctTranscript rejects
correctTranscriptRejected ==
    \E t \in Suspended("correct"), e \in GatewayErrors :
       /\ handleError(correctTranscriptError(e), "Failed to process audio.")
       /\ tasks' = Resume(t)
       /\ last' = Event("correctTranscriptRejected", e)
       /\ UNCHANGED <<data, audioFile, keySelections, checkKeyPc, env>>

----------------------------------------------------------------------------
(* App.tsx: handleGenerateMinutes, the Generate Minutes button of TranscriptView *)

\* Variant of handleGenerateMinutes without the early return on an empty transcript.
handleGenerateMinutesIgnoresEmpty ==
    /\ Mounted
    /\ step = "TRANSCRIBE"
    /\ processingState.status # "PROCESSING"
    /\ IF getAI = ""
       THEN /\ handleError(generateMeetingMinutesError(ApiKeyNotFound),
                           "Failed to generate minutes.")
            /\ UNCHANGED tasks
       ELSE /\ Pending < MaxPending
            /\ processingState' =
                  ProcessingStateOf("PROCESSING", "Generating meeting minutes...", NoError)
            /\ tasks' = Suspend(tasks, Task("minutes", NoFile, data.transcript))
            /\ UNCHANGED step
    /\ last' = Event("handleGenerateMinutes", NoError)
    /\ UNCHANGED <<data, audioFile, keySelections, checkKeyPc, env>>

handleGenerateMinutes ==
    /\ Mounted
    /\ step = "TRANSCRIBE"
    /\ processingState.status # "PROCESSING"
    /\ IF data.transcript = ""
       THEN UNCHANGED <<step, processingState, tasks>>
       ELSE IF getAI = ""
       THEN /\ handleError(generateMeetingMinutesError(ApiKeyNotFound),
                           "Failed to generate minutes.")
            /\ UNCHANGED tasks
       ELSE /\ Pending < MaxPending
            /\ processingState' =
                  ProcessingStateOf("PROCESSING", "Generating meeting minutes...", NoError)
            /\ tasks' = Suspend(tasks, Task("minutes", NoFile, data.transcript))
            /\ UNCHANGED step
    /\ last' = Event("handleGenerateMinutes", NoError)
    /\ UNCHANGED <<data, audioFile, keySelections, checkKeyPc, env>>

\* generateContent of generateMeetingMinutes resolves
generateMeetingMinutesResolved ==
    \E t \in Suspended("minutes"), response \in GatewayResponses :
       LET minutes == generateMeetingMinutesText(response) IN
       /\ data' = [data EXCEPT !.minutes = minutes]
       /\ step' = "MINUTES"
       /\ processingState' = ProcessingStateOf("SUCCESS", "Minutes generated", NoError)
       /\ tasks' = Resume(t)
       /\ last' = Resolved("generateMeetingMinutesResolved", response)
       /\ UNCHANGED <<audioFile, keySelections, checkKeyPc, env>>

\* generateContent of generateMeetingMinutes rejects
generateMeetingMinutesRejected ==
    \E t \in Suspended("minutes"), e \in GatewayErrors :
       /\ handleError(generateMeetingMinutesError(e), "Failed to generate minutes.")
       /\ tasks' = Resume(t)
       /\ last' = Event("generateMeetingMinutesRejected", e)
       /\ UNCHANGED <<data, audioFile, keySelections, checkKeyPc, env>>

----------------------------------------------------------------------------
(* App.tsx: the synchronous handlers *)

\* The four pieces of React state of App.
AppState ==
    [step |-> step, data |-> data, audioFile |-> audioFile,
     processingState |-> processingState]

\* Variant of resetAppState that keeps the selected audio file.
resetAppStateKeepsAudio(s) ==
    [step |-> "UPLOAD",
     data |-> [fileName |-> <<>>, fileType |-> <<>>, transcript |-> "", minutes |-> ""],
     audioFile |-> s.audioFile,
     processingState |-> ProcessingStateOf("IDLE", "", NoError)]

\* resetApp as a function of the React state: the state its four setters leave.
resetAppState(s) ==
    [step |-> "UPLOAD",
     data |-> [fileName |-> <<>>, fileType |-> <<>>, transcript |-> "", minutes |-> ""],
     audioFile |-> NoFile,
     processingState |-> ProcessingStateOf("IDLE", "", NoError)]

\* MinutesView onReset
resetApp ==
    /\ Mounted
    /\ step = "MINUTES"
    /\ LET s == resetAppState(AppState) IN
          /\ step' = s.step
          /\ data' = s.data
          /\ audioFile' = s.audioFile
          /\ processingState' = s.processingState
    /\ last' = Event("resetApp", NoError)
    /\ UNCHANGED <<tasks, keySelections, checkKeyPc, env>>

\* MinutesView onBack
onBack ==
    /\ Mounted
    /\ step = "MINUTES"
    /\ step' = "TRANSCRIBE"
    /\ last' = Event("onBack", NoError)
    /\ UNCHANGED <<processingState, data, audioFile, tasks, keySelections, checkKeyPc, env>>

\* Steps indicator, "1. Upload"
headerUploadClick ==
    /\ Mounted
    /\ step # "AUTH"
    /\ step' = "UPLOAD"
    /\ last' = Event("headerUploadClick", NoError)
    /\ UNCHANGED <<processingState, data, audioFile, tasks, keySelections, checkKeyPc, env>>

\* Steps indicator, "2. Review"
headerReviewClick ==
    /\ Mounted
    /\ step # "AUTH"
    /\ step' = IF step = "MINUTES" \/ step = "TRANSCRIBE" THEN "TRANSCRIBE" ELSE step
    /\ last' = Event("headerReviewClick", NoError)
    /\ UNCHANGED <<processingState, data, audioFile, tasks, keySelections, checkKeyPc, env>>

\* Variant of dismissError that also returns to the Upload step.
dismissErrorGoesToUpload ==
    /\ Mounted
    /\ processingState.status = "ERROR"
    /\ processingState' = ProcessingStateOf("IDLE", "", NoError)
    /\ step' = "UPLOAD"
    /\ last' = Event("dismissError", NoError)
    /\ UNCHANGED <<data, audioFile, tasks, keySelections, checkKeyPc, env>>

\* Dismiss button of the error notification
dismissError ==
    /\ Mounted
    /\ processingState.status = "ERROR"
    /\ processingState' = ProcessingStateOf("IDLE", "", NoError)
    /\ last' = Event("dismissError", NoError)
    /\ UNCHANGED <<step, data, audioFile, tasks, keySelections, checkKeyPc, env>>

\* TranscriptView textarea onChange
onTranscriptChange ==
    /\ Mounted
    /\ step = "TRANSCRIBE"
    /\ \E newText \in EditTexts :
          data' = [data EXCEPT !.transcript = newText]
    /\ last' = Event("onTranscriptChange", NoError)
    /\ UNCHANGED <<step, processingState, audioFile, tasks, keySelections, checkKeyPc, env>>

\* String.prototype.split on a token sequence: the pieces between separators.
RECURSIVE split(_, _)
split(s, sep) ==
    IF s = <<>> THEN << <<>> >>
    ELSE LET rest == split(Tail(s), sep)
         IN IF Head(s) = sep THEN << <<>> >> \o rest
            ELSE << <<Head(s)>> \o Head(rest) >> \o Tail(rest)

\* TranscriptView handleDownload, line 26: the name given to the download.
downloadName(fileName) == split(fileName, ".")[1] \o <<"_transcript.txt">>

\* TranscriptView handleDownload: the button is disabled while processing.
handleDownload ==
    /\ Mounted
    /\ step = "TRANSCRIBE"
    /\ processingState.status # "PROCESSING"
    /\ last' = [Event("handleDownload", NoError) EXCEPT !.download = downloadName(data.fileName)]
    /\ UNCHANGED <<step, processingState, data, audioFile, tasks, keySelections,
                   checkKeyPc, env>>

----------------------------------------------------------------------------

Next ==
    \/ checkKey
    \/ \E selected \in BOOLEAN : hasSelectedApiKeyResolved(selected)
    \/ hasSelectedApiKeyRejected
    \/ handleApiKeySelection
    \/ openSelectKeyResolved
    \/ openSelectKeyRejected
    \/ handleChange
    \/ fileToBase64Resolved
    \/ fileToBase64Rejected
    \/ transcribeAudioResolved
    \/ transcribeAudioRejected
    \/ correctTranscriptResolved
    \/ correctTranscriptRejected
    \/ handleGenerateMinutes
    \/ generateMeetingMinutesResolved
    \/ generateMeetingMinutesRejected
    \/ resetApp
    \/ onBack
    \/ headerUploadClick
    \/ headerReviewClick
    \/ dismissError
    \/ onTranscriptChange
    \/ handleDownload

Spec == Init /\ [][Next]_vars

\* The continuation of some settled promise of a pipeline runs.
Settle ==
    \/ fileToBase64Resolved
    \/ fileToBase64Rejected
    \/ transcribeAudioResolved
    \/ transcribeAudioRejected
    \/ correctTranscriptResolved
    \/ correctTranscriptRejected
    \/ generateMeetingMinutesResolved
    \/ generateMeetingMinutesRejected

\* While a pipeline handler is suspended, one of the awaited promises settles:
\* the file reader finishes and each generateContent call resolves or rejects.
FairSpec == Spec /\ WF_vars(Settle)

----------------------------------------------------------------------------
(* Claims *)

PipelineEvents ==
    {"transcribeAudioRejected", "correctTranscriptRejected", "generateMeetingMinutesRejected"}

\* C1 (as stated): in every reachable state, step = TRANSCRIBE implies that
\* data.transcript is non-empty.
C1_TranscribeImpliesTranscript ==
    step = "TRANSCRIBE" => data.transcript # ""

\* C1 (amended): every step that takes the session from Auth or Upload to
\* Transcribe leaves a non-empty data.transcript; the textarea may empty it
\* afterwards.
C1_EntersTranscribeWithTranscript ==
    [][(step \in {"AUTH", "UPLOAD"} /\ step' = "TRANSCRIBE") => data'.transcript # ""]_vars

C1_Witness ==
    /\ last.ev = "correctTranscriptResolved"
    /\ step = "TRANSCRIBE"
    /\ data.transcript = "Speaker 1: Hello."

\* C2: in every reachable state, step = MINUTES implies that data.minutes is
\* non-empty, and every step that enters Minutes is the continuation of a
\* resolved generateMeetingMinutes call, which stores its result.
C2_MinutesImpliesMinutes ==
    /\ [](step = "MINUTES" => data.minutes # "")
    /\ [][(step # "MINUTES" /\ step' = "MINUTES") =>
             (last'.ev = "generateMeetingMinutesResolved" /\ data'.minutes # "")]_vars

C2_Witness ==
    /\ step = "MINUTES"
    /\ last.ev = "generateMeetingMinutesResolved"
    /\ data.minutes = "No minutes generated."

\* C3: at most one gateway call is outstanding at any time.
C3_AtMostOneCall ==
    OutstandingCalls <= 1

\* C4: after a gateway failure whose message contains "Requested entity was not
\* found", raised in any of the three services, step is AUTH.
C4_CredentialErrorRouting ==
    (last.ev \in PipelineEvents /\ Includes(last.error, NotFoundPhrase)) => step = "AUTH"

\* C5: while an upload pipeline is in flight (from handleFileSelect until its
\* last continuation), data.transcript and data.minutes are empty.
C5_UploadStartsClean ==
    (\E t \in BagToSet(tasks) : t.pc \in {"fileToBase64", "transcribe", "correct"})
        => (data.transcript = "" /\ data.minutes = "")

\* C6: after the Correction Service call has raised, step is UPLOAD and
\* data.transcript is empty.
C6_CorrectionFailureLeavesUpload ==
    last.ev = "correctTranscriptRejected" => (step = "UPLOAD" /\ data.transcript = "")

\* C7: when the Correction call of an upload resolves (the Transcription call
\* resolved before it), step is TRANSCRIBE, the status is SUCCESS and
\* data.transcript is non-empty, whatever text the gateway returned.
C7_PipelineSuccess ==
    last.ev = "correctTranscriptResolved" =>
        /\ step = "TRANSCRIBE"
        /\ processingState.status = "SUCCESS"
        /\ data.transcript # ""

C7_Witness ==
    /\ last.ev = "correctTranscriptResolved"
    /\ data.transcript = "No transcript generated."

\* C8 (as stated): when the Minutes Service call fails, data is unchanged and its
\* transcript is the one the call was dispatched with, step is TRANSCRIBE and
\* the status is ERROR.
C8_MinutesFailureAtTranscribe ==
    [][\A t \in Suspended("minutes") :
          (last'.ev = "generateMeetingMinutesRejected" /\ tasks' = Resume(t)) =>
              /\ data' = data
              /\ data'.transcript = t.text
              /\ step' = "TRANSCRIBE"
              /\ processingState'.status = "ERROR"]_vars

\* C8 (amended): when the Minutes Service call fails, handling the failure
\* leaves data and step as they were just before it and sets the status to
\* ERROR.
C8_MinutesFailureFrame ==
    [][last'.ev = "generateMeetingMinutesRejected" =>
          /\ data' = data
          /\ step' = step
          /\ processingState'.status = "ERROR"]_vars

C8_Witness ==
    /\ last.ev = "generateMeetingMinutesRejected"
    /\ step = "UPLOAD"
    /\ processingState.status = "ERROR"
    /\ data.transcript # ""

\* C9: resetApp yields exactly step = UPLOAD, an empty record, no audio file and
\* the status IDLE with an empty message; applying it to that state again
\* yields the same state.
C9_ResetExact ==
    last.ev = "resetApp" =>
        /\ step = "UPLOAD"
        /\ data = EmptyMeetingData
        /\ audioFile = NoFile
        /\ processingState = ProcessingStateOf("IDLE", "", NoError)
        /\ resetAppState(AppState) = AppState

C9_Witness ==
    /\ last.ev = "resetApp"
    /\ step = "UPLOAD"

\* C10 (as stated): whenever no gateway call is outstanding, the status is IDLE
\* or SUCCESS.
C10_IdleOrSuccessWhenQuiet ==
    OutstandingCalls = 0 => processingState.status \in {"IDLE", "SUCCESS"}

\* C10 (amended): whenever no upload or minutes handler is suspended (no gateway
\* call outstanding, no file being encoded), the status is IDLE, SUCCESS or
\* ERROR, never PROCESSING.
C10_NotProcessingWhenQuiet ==
    BagCardinality(tasks) = 0 => processingState.status \in {"IDLE", "SUCCESS", "ERROR"}

C10_Witness ==
    /\ BagCardinality(tasks) = 0
    /\ processingState.status = "ERROR"
    /\ last.ev = "transcribeAudioRejected"

\* Neither process.env.API_KEY nor VITE_API_KEY holds a key.
NoKeyInEnvironment == env.API_KEY = "" /\ env.VITE_API_KEY = ""

\* C11: while the environment holds no API key no gateway call is outstanding
\* (every service call fails in getAI), and when the startup probe finds no
\* credential (no host capability or no key selected, and no key in the
\* environment) it leaves step = AUTH.
C11_NoCallWithoutCredential ==
    /\ [](NoKeyInEnvironment => OutstandingCalls = 0)
    /\ [][((checkKey /\ ~env.aistudio /\ NoKeyInEnvironment) => step' = "AUTH")
          /\ ((hasSelectedApiKeyResolved(FALSE) /\ NoKeyInEnvironment) => step' = "AUTH")]_vars

C11_Witness ==
    /\ NoKeyInEnvironment
    /\ last.ev = "fileToBase64Resolved"
    /\ processingState.status = "ERROR"
    /\ processingState.error = ApiKeyNotFound

\* C12: when the startup probe completes, step is UPLOAD if a key is already
\* selected through the host capability or process.env.API_KEY holds one, and
\* AUTH if neither does.
C12_ProbeOutcome ==
    [][/\ (checkKey /\ ~env.aistudio) => (step' = "UPLOAD" <=> env.API_KEY # "")
       /\ \A selected \in BOOLEAN :
             hasSelectedApiKeyResolved(selected) =>
                 /\ (selected \/ env.API_KEY # "") => step' = "UPLOAD"
                 /\ ~(selected \/ env.API_KEY # "") => step' = "AUTH"]_vars

\* The continuations that end in handleError with an error caught from a
\* rejected promise.
ErrorEvents ==
    {"openSelectKeyRejected", "fileToBase64Rejected", "transcribeAudioRejected",
     "correctTranscriptRejected", "generateMeetingMinutesRejected"}

\* The message of the error object that the last continuation passed to handleError.
HandledError ==
    CASE last.ev = "openSelectKeyRejected" -> last.error
      [] last.ev = "fileToBase64Rejected" -> fileToBase64Error
      [] last.ev = "transcribeAudioRejected" -> transcribeAudioError(last.error)
      [] last.ev = "correctTranscriptRejected" -> correctTranscriptError(last.error)
      [] last.ev = "generateMeetingMinutesRejected" -> generateMeetingMinutesError(last.error)
      [] OTHER -> NoError

\* The message the calling operation passed to handleError.
CallerMessage ==
    CASE last.ev = "openSelectKeyRejected" -> "Failed to select API Key. Please try again."
      [] last.ev = "generateMeetingMinutesRejected" -> "Failed to generate minutes."
      [] OTHER -> "Failed to process audio."

\* C13: when handleError receives an error whose message does not contain the
\* credential phrase, step and data are unchanged and processingState is ERROR
\* with the caller's message and the error's message as detail, "An unknown
\* error occurred" when the error has none.
C13_GenericError ==
    [][(last'.ev \in ErrorEvents /\ ~Includes(HandledError', NotFoundPhrase)) =>
          /\ step' = step
          /\ data' = data
          /\ processingState' =
                ProcessingStateOf("ERROR", CallerMessage',
                    IF HandledError' # NoError THEN HandledError'
                    ELSE <<"An", "unknown", "error", "occurred">>)]_vars

C13_Witness ==
    /\ last.ev = "openSelectKeyRejected"
    /\ last.error = NoError
    /\ processingState.message = "Failed to select API Key. Please try again."
    /\ processingState.error = <<"An", "unknown", "error", "occurred">>

\* C14: when handleError receives an error whose message contains the credential
\* phrase, step becomes AUTH whatever it was, processingState is ERROR with the
\* fixed re-select message and the error's message as detail, and data is
\* unchanged.
C14_CredentialError ==
    [][(last'.ev \in ErrorEvents /\ Includes(HandledError', NotFoundPhrase)) =>
          /\ step' = "AUTH"
          /\ data' = data
          /\ processingState' =
                ProcessingStateOf("ERROR", "API Key Error: Please re-select your API Key.",
                                  HandledError')]_vars

C14_Witness ==
    /\ last.ev = "transcribeAudioRejected"
    /\ Includes(last.error, NotFoundPhrase)
    /\ step = "AUTH"
    /\ data.fileName # <<>>
    /\ processingState.message = "API Key Error: Please re-select your API Key."

\* C15: a correctTranscript call is dispatched only by the continuation of a
\* resolved transcribeAudio call, which ends that call and passes on exactly
\* the text transcribeAudio returned; step changes from UPLOAD to TRANSCRIBE
\* only when a correctTranscript call resolves.
C15_CorrectionAfterTranscription ==
    [][/\ \A t \in BagToSet(tasks') :
             (t.pc = "correct" /\ CopiesIn(t, tasks') > CopiesIn(t, tasks)) =>
                 /\ last'.ev = "transcribeAudioResolved"
                 /\ t.text = last'.text
                 /\ \E u \in Suspended("transcribe") :
                       CopiesIn(u, tasks') = CopiesIn(u, tasks) - 1
       /\ (step = "UPLOAD" /\ step' = "TRANSCRIBE") =>
             /\ last'.ev = "correctTranscriptResolved"
             /\ \E t \in Suspended("correct") :
                   CopiesIn(t, tasks') = CopiesIn(t, tasks) - 1]_vars

C15_Witness ==
    /\ last.ev = "transcribeAudioResolved"
    /\ last.text = "Speaker 1: Hello."
    /\ \E t \in Suspended("correct") : t.text = last.text

\* C16: a gateway response whose text is empty or absent is not an error in any
\* service: transcribeAudio returns "No transcript generated.",
\* generateMeetingMinutes returns "No minutes generated." and correctTranscript
\* returns the raw transcript it was called with.
C16_EmptyResponseIsNoError ==
    [][/\ (last'.ev = "transcribeAudioResolved" /\ TextOf(last'.response) = "") =>
             /\ last'.text = "No transcript generated."
             /\ processingState'.status # "ERROR"
       /\ (last'.ev = "correctTranscriptResolved" /\ TextOf(last'.response) = "") =>
             /\ \E t \in Suspended("correct") :
                   /\ CopiesIn(t, tasks') = CopiesIn(t, tasks) - 1
                   /\ data'.transcript = t.text
             /\ processingState'.status = "SUCCESS"
       /\ (last'.ev = "generateMeetingMinutesResolved" /\ TextOf(last'.response) = "") =>
             /\ data'.minutes = "No minutes generated."
             /\ processingState'.status = "SUCCESS"]_vars

C16_Witness ==
    /\ last.ev = "correctTranscriptResolved"
    /\ ~last.response.hasText
    /\ data.transcript = "Speaker 1: Hello."

RejectedEvents ==
    {"fileToBase64Rejected", "transcribeAudioRejected", "correctTranscriptRejected",
     "generateMeetingMinutesRejected"}

\* The only moves of a suspended handler from one await to the next.
Dispatches == {<<"fileToBase64", "transcribe">>, <<"transcribe", "correct">>}

\* C17: no retries.  A handler is suspended only by a file selection or a
\* Generate Minutes click, one per action, at the file encoding or at the
\* minutes call; a suspended handler only moves forward, from the encoding to
\* one transcription call and from there to one correction call, or ends;
\* and the continuation of a failure ends its handler without issuing a call.
C17_NoRetries ==
    [][LET n  == BagCardinality(tasks)
           n2 == BagCardinality(tasks')
       IN CASE tasks' = tasks -> last'.ev \notin RejectedEvents
            [] tasks' # tasks /\ n2 > n ->
                  /\ last'.ev \in {"handleFileSelect", "handleGenerateMinutes"}
                  /\ \E t \in BagToSet(tasks') :
                        /\ tasks' = Suspend(tasks, t)
                        /\ t.pc = IF last'.ev = "handleFileSelect" THEN "fileToBase64"
                                  ELSE "minutes"
            [] tasks' # tasks /\ n2 < n ->
                  \E t \in BagToSet(tasks) : tasks' = Resume(t)
            [] tasks' # tasks /\ n2 = n ->
                  /\ last'.ev \notin RejectedEvents
                  /\ \E t \in BagToSet(tasks), u \in BagToSet(tasks') :
                        /\ <<t.pc, u.pc>> \in Dispatches
                        /\ tasks' = Suspend(Resume(t), u)]_vars

C17_Witness ==
    /\ last.ev = "correctTranscriptRejected"
    /\ OutstandingCalls = 0
    /\ BagCardinality(tasks) = 0
    /\ processingState.status = "ERROR"

\* C18: a key selection that succeeds sets step to UPLOAD; one that fails
\* goes through handleError, so the status is ERROR, and the step changes
\* only when the error carries the credential phrase, in which case it is AUTH.
C18_KeySelection ==
    [][/\ last'.ev = "openSelectKeyResolved" => step' = "UPLOAD"
       /\ last'.ev = "openSelectKeyRejected" =>
             /\ processingState'.status = "ERROR"
             /\ processingState'.error =
                   (IF last'.error # NoError THEN last'.error
                    ELSE <<"An", "unknown", "error", "occurred">>)
             /\ IF Includes(last'.error, NotFoundPhrase)
                THEN step' = "AUTH"
                ELSE step' = step]_vars

C18_Witness ==
    /\ last.ev = "openSelectKeyRejected"
    /\ Includes(last.error, NotFoundPhrase)
    /\ step = "AUTH"
    /\ audioFile # NoFile

\* C19: the dropzone passes a file on exactly when its type starts with
\* "audio/" and its size is at most 200*1024*1024 bytes, so a file of exactly
\* that size is passed; a rejection only shows an alert and leaves step,
\* processingState, data and the suspended handlers as they were, and
\* handleFileSelect only ever receives a file that meets both conditions.
C19_RejectedBeforeController ==
    /\ [](\A file \in Files :
             validateAndPassFile(file) = "" <=>
                /\ StartsWith(file.type, <<"audio", "/">>)
                /\ file.size <= 200 * 1024 * 1024)
    /\ [][/\ last'.ev = "alert" =>
                /\ last'.text # ""
                /\ UNCHANGED <<step, processingState, data, audioFile, tasks>>
          /\ last'.ev = "handleFileSelect" =>
                /\ StartsWith(audioFile'.type, <<"audio", "/">>)
                /\ audioFile'.size <= 200 * 1024 * 1024]_vars

C19_Witness ==
    /\ last.ev = "alert"
    /\ last.text = "File is too large (limit 200MB)."
    /\ audioFile # NoFile
    /\ audioFile.size = 200 * 1024 * 1024
    /\ OutstandingCalls = 0

\* The position of the last "." of a file name, 0 when it has none.
LastDot(fileName) ==
    LET dots == {i \in 1..Len(fileName) : fileName[i] = "."}
    IN IF dots = {} THEN 0 ELSE CHOOSE i \in dots : \A j \in dots : j <= i

\* A file name with its extension removed.
Basename(fileName) ==
    IF LastDot(fileName) = 0 THEN fileName
    ELSE SubSeq(fileName, 1, LastDot(fileName) - 1)

\* C20: the transcript download is named the file name with its extension
\* removed, followed by "_transcript.txt".
C20_ExportNamedByBasename ==
    [][last'.ev = "handleDownload" =>
          last'.download = Basename(data.fileName) \o <<"_transcript.txt">>]_vars

\* C21: dismissing the error notification sets processingState to IDLE with
\* an empty message and no error, and leaves step, data, audioFile and the
\* suspended handlers (so the gateway calls) as they were.
C21_DismissFrame ==
    [][last'.ev = "dismissError" =>
          /\ processingState' = ProcessingStateOf("IDLE", "", NoError)
          /\ UNCHANGED <<step, data, audioFile, tasks, keySelections>>]_vars

C21_Witness ==
    /\ last.ev = "dismissError"
    /\ processingState.status = "IDLE"
    /\ step = "AUTH"
    /\ audioFile # NoFile

\* C22: a Generate Minutes click while data.transcript is empty suspends no
\* handler, so issues no gateway call, and leaves step, processingState and
\* data as they were.
C22_EmptyTranscriptNoOp ==
    [][(last'.ev = "handleGenerateMinutes" /\ data.transcript = "") =>
          UNCHANGED <<step, processingState, data, audioFile, tasks>>]_vars

C22_Witness ==
    /\ last.ev = "handleGenerateMinutes"
    /\ data.transcript = ""
    /\ data.fileName # <<>>
    /\ step = "TRANSCRIBE"
    /\ processingState.status = "SUCCESS"
    /\ OutstandingCalls = 0

\* C23: without window.aistudio, once checkKey has run and no gateway call
\* is outstanding, a step of AUTH stays AUTH whatever happens next.
C23_AuthAbsorbing ==
    [][(~env.aistudio /\ Mounted /\ step = "AUTH" /\ OutstandingCalls = 0) =>
          step' = "AUTH"]_vars

C23_Witness ==
    /\ ~env.aistudio
    /\ step = "AUTH"
    /\ last.ev = "dismissError"
    /\ data.transcript # ""
    /\ OutstandingCalls = 0

\* C24: when every awaited promise settles, a processingState of PROCESSING
\* is always followed by one of SUCCESS or ERROR.
C24_PipelineTerminates ==
    (processingState.status = "PROCESSING") ~>
        (processingState.status \in {"SUCCESS", "ERROR"})

C24_Witness ==
    /\ last.ev = "generateMeetingMinutesRejected"
    /\ processingState.status = "ERROR"
    /\ BagCardinality(tasks) = 0
    /\ keySelections = 0

====
